---- MODULE Spec2Model ----
(***************************************************************************)
(* Model of scripts/generate_splash.py: the splash screen generator.       *)
(*                                                                         *)
(* Three specifications share this module:                                 *)
(*   MaskSpec  - round_corners' opacity mask as a pure function of         *)
(*               (w, h, radius), pixel by pixel;                           *)
(*   PixelSpec - create_splash_screen pixel by pixel on small geometries;  *)
(*   Spec      - main() with the program's real dimensions, the file       *)
(*               system, the console and uncaught faults.                  *)
(***************************************************************************)
EXTENDS Integers, Sequences, FiniteSets, TLC

VARIABLES
    \* ---- main() ----
    pc,             \* position in main() / create_splash_screen
    variant,        \* "none", "dark" or "light": the call in progress
    logoFile,       \* the file at LOGO_PATH: absent, corrupt or an image
    stdoutEnc,      \* the encoding of sys.stdout
    dirExists,      \* whether OUTPUT_DIR exists
    files,          \* output file name -> content
    stdout,         \* lines printed so far in this run
    trace,          \* events of this run, in order
    fault,          \* "none" or the uncaught exception
    runs,           \* number of runs started
    logoAtStart,    \* logoFile when the first run started
    filesAtStart,   \* files when this run started
    filesAfterRun1, \* files when the first run ended
    splash,         \* local of create_splash_screen (line 53)
    logo,           \* local of create_splash_screen (lines 56-60)
    final,          \* local of create_splash_screen (line 70)
    logoPos,        \* (logo_x, logo_y) (lines 63-64)
    \* ---- round_corners as a pure function ----
    mw, mh, mr,     \* inputs: image size and radius
    mask,           \* the alpha image built by round_corners, or NoImage
    \* ---- create_splash_screen pixel by pixel ----
    ppc,            \* position in create_splash_screen
    geo,            \* the dimensions standing for the module constants
    pbg,            \* bg_color
    plogo,          \* the logo image
    alphaBefore,    \* alpha band of the logo when round_corners is entered
    psplash,        \* the RGBA canvas
    pfinal          \* the RGB image that is saved

mainVars == <<pc, variant, logoFile, stdoutEnc, dirExists, files, stdout, trace, fault,
              runs, logoAtStart, filesAtStart, filesAfterRun1, splash, logo,
              final, logoPos>>
maskVars == <<mw, mh, mr, mask>>
pixVars  == <<ppc, geo, pbg, plogo, alphaBefore, psplash, pfinal>>
vars     == <<mainVars, maskVars, pixVars>>

NoImage == [mode |-> "none"]

\* ------------------------------------------------------------------------
\* Configuration (lines 12-25)
\* ------------------------------------------------------------------------
LOGO_PATH == "assets/AI_Companion_icon.png"
OUTPUT_DIR == "assets"
SPLASH_WIDTH == 1284
SPLASH_HEIGHT == 2778
LOGO_SIZE == 480
LOGO_RADIUS == 120
DARK_BG == "#000000"
LIGHT_BG == "#F2F2F7"

\* ------------------------------------------------------------------------
\* Bounds of the pixel-level specifications
\* ------------------------------------------------------------------------
MaxMaskDim == 10
MaxLogoDim == 4
MaxMargin == 2
MaxRuns == 2

\* ------------------------------------------------------------------------
\* Raster images: [mode, w, h, px], px a function on the pixel coordinates
\* ------------------------------------------------------------------------
Abs(n) == IF n < 0 THEN -n ELSE n
Min(a, b) == IF a < b THEN a ELSE b

Pixels(w, h) == (0 .. w - 1) \X (0 .. h - 1)

\* Image.new(mode, (w, h), color)
ImageNew(mode, w, h, color) ==
    [mode |-> mode, w |-> w, h |-> h, px |-> [p \in Pixels(w, h) |-> color]]

\* ImageColor: the RGB value of a "#rrggbb" colour string
ColorRGB(bg) ==
    CASE bg = "#000000" -> <<0, 0, 0>>
      [] bg = "#F2F2F7" -> <<242, 242, 247>>

\* The value Image.new gives every pixel for a colour string
ColorFor(mode, bg) ==
    IF mode = "RGBA" THEN ColorRGB(bg) \o <<255>> ELSE ColorRGB(bg)

\* image.crop((x0, y0, x1, y1))
Crop(im, x0, y0, x1, y1) ==
    [mode |-> im.mode, w |-> x1 - x0, h |-> y1 - y0,
     px |-> [p \in Pixels(x1 - x0, y1 - y0) |-> im.px[<<p[1] + x0, p[2] + y0>>]]]

InBox(p, ox, oy, w, h) ==
    /\ ox <= p[1] /\ p[1] < ox + w
    /\ oy <= p[2] /\ p[2] < oy + h

\* base.paste(im, (ox, oy)): copy, clipped to base
Paste(base, im, ox, oy) ==
    [base EXCEPT !.px =
        [p \in Pixels(base.w, base.h) |->
            IF InBox(p, ox, oy, im.w, im.h)
            THEN im.px[<<p[1] - ox, p[2] - oy>>]
            ELSE base.px[p]]]

\* ------------------------------------------------------------------------
\* ImageDraw.ellipse (Pillow's Draw.c: quarter_*, ellipse_*, ellipseNew)
\* Coordinates of the outline are doubled and relative to the centre.
\* ------------------------------------------------------------------------
quarter_delta(a, b, x, y) ==
    Abs((a * a) * y * y + (b * b) * x * x - (a * a) * (b * b))

\* the successor of outline point (cx, cy) in quarter_next
quarter_step(a, b, cx, cy) ==
    LET d1 == quarter_delta(a, b, cx, cy + 2)
        d2 == quarter_delta(a, b, cx - 2, cy + 2)
        d3 == quarter_delta(a, b, cx - 2, cy)
        first == IF cx > 1 /\ d1 > d2 THEN <<cx - 2, cy + 2, d2>>
                                      ELSE <<cx, cy + 2, d1>>
    IN  IF cx > 1 /\ first[3] > d3 THEN <<cx - 2, cy>>
                                   ELSE <<first[1], first[2]>>

RECURSIVE quarter_walk(_, _, _, _)
quarter_walk(a, b, cx, cy) ==
    IF cx = a % 2 /\ cy = b
    THEN << <<cx, cy>> >>
    ELSE LET n == quarter_step(a, b, cx, cy)
         IN  << <<cx, cy>> >> \o quarter_walk(a, b, n[1], n[2])

\* every point quarter_next yields after quarter_init(a, b)
quarter_points(a, b) ==
    IF a < 0 \/ b < 0 THEN <<>> ELSE quarter_walk(a, b, a, b % 2)

\* the horizontal spans <<X0, Y, X1>> ellipse_next yields for a filled ellipse:
\* per row the first outline point gives the right end, the left end is a % 2
ellipse_spans(a, b) ==
    LET pts == quarter_points(a, b)
        firsts == {i \in 1 .. Len(pts) :
                      \A j \in 1 .. i - 1 : pts[j][2] # pts[i][2]}
        l == a % 2
    IN  UNION {
          LET r == pts[i][1]
              y == pts[i][2]
          IN  (IF (l > 0 \/ l < r) /\ y > 0 THEN {<<l, y, r>>} ELSE {})
              \cup (IF y > 0 THEN {<<-r, y, -l>>} ELSE {})
              \cup (IF l > 0 \/ l < r THEN {<<l, -y, r>>} ELSE {})
              \cup {<<-r, -y, -l>>}
          : i \in firsts }

\* draw.ellipse((x0, y0, x1, y1), fill): ellipseNew draws each span with
\* hline, which clips to the image
DrawEllipse(im, x0, y0, x1, y1, fill) ==
    LET a == x1 - x0
        b == y1 - y0
        spans == IF a < 0 \/ b < 0 THEN {} ELSE ellipse_spans(a, b)
        Hit(p) == \E s \in spans :
                     /\ p[2] = y0 + ((s[2] + b) \div 2)
                     /\ x0 + ((s[1] + a) \div 2) <= p[1]
                     /\ p[1] <= x0 + ((s[3] + a) \div 2)
    IN  [im EXCEPT !.px = [p \in Pixels(im.w, im.h) |->
                              IF Hit(p) THEN fill ELSE im.px[p]]]

\* ------------------------------------------------------------------------
\* round_corners (lines 28-47)
\* ------------------------------------------------------------------------
\* lines 30-32: the disc stamp
CircleStamp(radius) ==
    DrawEllipse(ImageNew("L", radius * 2, radius * 2, 0),
                0, 0, radius * 2, radius * 2, 255)

\* lines 34-44: the alpha image given to putalpha
RoundCornersMask(w, h, radius) ==
    LET circle == CircleStamp(radius)
        alpha0 == ImageNew("L", w, h, 255)
        alpha1 == Paste(alpha0, Crop(circle, 0, 0, radius, radius), 0, 0)
        alpha2 == Paste(alpha1, Crop(circle, radius, 0, radius * 2, radius),
                        w - radius, 0)
        alpha3 == Paste(alpha2, Crop(circle, 0, radius, radius, radius * 2),
                        0, h - radius)
    IN  Paste(alpha3, Crop(circle, radius, radius, radius * 2, radius * 2),
              w - radius, h - radius)

\* image.putalpha(alpha): the alpha band is replaced by the 'L' image
PutAlpha(image, alpha) ==
    [image EXCEPT !.px =
        [p \in Pixels(image.w, image.h) |->
            <<image.px[p][1], image.px[p][2], image.px[p][3], alpha.px[p]>>]]

\* the alpha band of an RGBA image as an 'L' image
AlphaBand(image) ==
    [mode |-> "L", w |-> image.w, h |-> image.h,
     px |-> [p \in Pixels(image.w, image.h) |-> image.px[p][4]]]

\* lines 28-47
RoundCorners(image, radius) ==
    PutAlpha(image, RoundCornersMask(image.w, image.h, radius))

\* ------------------------------------------------------------------------
\* Compositing (Pillow's Paste.c paste_mask_RGBA, ImagingUtils.h)
\* ------------------------------------------------------------------------
\* a plausible slip: dividing by 256 with a shift instead of by 255
DIV255Shift(a) == a \div 256

\* DIV255(a, tmp): tmp = a + 128, ((tmp >> 8) + tmp) >> 8
DIV255(a) == (((a + 128) \div 256) + (a + 128)) \div 256

\* BLEND(mask, in1, in2): DIV255(in1 * (255 - mask) + in2 * mask)
BLEND(m, in1, in2) == DIV255(in1 * (255 - m) + in2 * m)

\* base.paste(im, (ox, oy), maskIm): every band of base is blended with the
\* band of im, weighted by the alpha band of the RGBA mask
PasteMask(base, im, ox, oy, maskIm) ==
    [base EXCEPT !.px =
        [p \in Pixels(base.w, base.h) |->
            IF InBox(p, ox, oy, im.w, im.h)
            THEN LET q == <<p[1] - ox, p[2] - oy>>
                 IN  [i \in 1 .. Len(base.px[p]) |->
                         BLEND(maskIm.px[q][4], base.px[p][i], im.px[q][i])]
            ELSE base.px[p]]]

\* a plausible slip: the logo's half edge is forgotten
LogoOffsetHalfCanvas(W, S) == W \div 2

\* lines 63-64: logo_x, logo_y for a canvas edge W and a logo edge S
LogoOffset(W, S) == (W - S) \div 2

\* ------------------------------------------------------------------------
\* Images at the program's real dimensions.  A 1284 x 2778 raster is kept
\* as its uniform value (fill) and the one image pasted into it (inset); a
\* logo is kept as the file it was decoded from, its size and the radius of
\* the mask that replaced its alpha band (0: none).
\* ------------------------------------------------------------------------
NoInset == [x |-> 0, y |-> 0, im |-> NoImage]

\* Image.new(mode, (w, h), bg_color)
SymCanvas(mode, w, h, bg) ==
    [mode |-> mode, w |-> w, h |-> h, fill |-> ColorFor(mode, bg),
     inset |-> NoInset]

\* Image.open(logo_path).convert('RGBA')
SymOpen(f) ==
    [mode |-> "RGBA", w |-> f.w, h |-> f.h, src |-> f.name,
     srcSize |-> <<f.w, f.h>>, radius |-> 0]

\* a plausible slip: resizing that keeps the aspect ratio (as thumbnail does)
SymResizeKeepAspect(im, w, h) ==
    IF im.w >= im.h
    THEN [im EXCEPT !.w = w, !.h = (im.h * w) \div im.w]
    ELSE [im EXCEPT !.w = (im.w * h) \div im.h, !.h = h]

\* logo.resize((w, h), LANCZOS): the result has exactly the requested size
SymResize(im, w, h) == [im EXCEPT !.w = w, !.h = h]

\* round_corners(logo, radius): putalpha with the mask of that radius
SymRoundCorners(im, radius) == [im EXCEPT !.radius = radius]

\* splash.paste(logo, (x, y), logo)
SymPaste(base, im, x, y) == [base EXCEPT !.inset = [x |-> x, y |-> y, im |-> im]]

\* final = Image.new('RGB', ..); final.paste(splash, (0, 0), splash)
SymFlatten(bg, sp) ==
    LET base == SymCanvas("RGB", sp.w, sp.h, bg)
    IN  [base EXCEPT
            !.fill = [i \in 1 .. 3 |-> BLEND(sp.fill[4], base.fill[i], sp.fill[i])],
            !.inset = sp.inset]

\* ------------------------------------------------------------------------
\* Idle values: the part of the state a specification does not use
\* ------------------------------------------------------------------------
MaskIdle ==
    /\ mw = 0 /\ mh = 0 /\ mr = 0
    /\ mask = NoImage

PixIdle ==
    /\ ppc = "idle"
    /\ geo = [cw |-> 0, ch |-> 0, ls |-> 0, r |-> 0]
    /\ pbg = DARK_BG
    /\ plogo = NoImage
    /\ alphaBefore = NoImage
    /\ psplash = NoImage
    /\ pfinal = NoImage

MainIdle ==
    /\ pc = "idle"
    /\ variant = "none"
    /\ logoFile = [kind |-> "absent"]
    /\ stdoutEnc = "utf-8"
    /\ dirExists = FALSE
    /\ files = <<>>
    /\ stdout = <<>>
    /\ trace = <<>>
    /\ fault = "none"
    /\ runs = 0
    /\ logoAtStart = [kind |-> "absent"]
    /\ filesAtStart = <<>>
    /\ filesAfterRun1 = [ok |-> FALSE, files |-> <<>>]
    /\ splash = NoImage
    /\ logo = NoImage
    /\ final = NoImage
    /\ logoPos = <<>>

\* ------------------------------------------------------------------------
\* MaskSpec: round_corners' mask for every supported (w, h, radius)
\* ------------------------------------------------------------------------
\* the inputs section 4.1 supports: 0 < r <= min(w, h) / 2
MaskInputs ==
    {t \in (2 .. MaxMaskDim) \X (2 .. MaxMaskDim) \X (1 .. MaxMaskDim \div 2) :
        2 * t[3] <= Min(t[1], t[2])}

MaskInit ==
    /\ \E t \in MaskInputs : mw = t[1] /\ mh = t[2] /\ mr = t[3]
    /\ mask = NoImage
    /\ MainIdle
    /\ PixIdle

\* lines 30-44 applied to an image of size (mw, mh)
BuildMask ==
    /\ mask = NoImage
    /\ mask' = RoundCornersMask(mw, mh, mr)
    /\ UNCHANGED <<mw, mh, mr, mainVars, pixVars>>

MaskNext == BuildMask

MaskSpec == MaskInit /\ [][MaskNext]_vars

\* ------------------------------------------------------------------------
\* Geometry of the mask (section 4.1)
\* ------------------------------------------------------------------------
\* the corner square of side r a pixel lies in, or "none"
CornerOf(p, w, h, r) ==
    CASE p[1] < r /\ p[2] < r           -> "tl"
      [] p[1] >= w - r /\ p[2] < r      -> "tr"
      [] p[1] < r /\ p[2] >= h - r      -> "bl"
      [] p[1] >= w - r /\ p[2] >= h - r -> "br"
      [] OTHER                          -> "none"

\* centre of the disc of radius r inscribed in a corner: the inner vertex of
\* the corner square
DiscCentre(c, w, h, r) ==
    CASE c = "tl" -> <<r, r>>
      [] c = "tr" -> <<w - r, r>>
      [] c = "bl" -> <<r, h - r>>
      [] c = "br" -> <<w - r, h - r>>

\* the centre of pixel p is within distance r of the disc's centre
\* (coordinates doubled: the centre of pixel x is x + 1/2)
InQuarterDisc(p, w, h, r) ==
    LET c == DiscCentre(CornerOf(p, w, h, r), w, h, r)
        dx == 2 * p[1] + 1 - 2 * c[1]
        dy == 2 * p[2] + 1 - 2 * c[2]
    IN  dx * dx + dy * dy <= 4 * r * r

\* some point of the square pixel p is strictly inside the disc
TouchesQuarterDisc(p, w, h, r) ==
    LET c == DiscCentre(CornerOf(p, w, h, r), w, h, r)
        nx == Min(Abs(p[1] - c[1]), Abs(p[1] + 1 - c[1]))
        ny == Min(Abs(p[2] - c[2]), Abs(p[2] + 1 - c[2]))
    IN  nx * nx + ny * ny < r * r

\* the pixel of the (2r, 2r) stamp that round_corners copies to mask pixel p
StampPixel(p, w, h, r) ==
    CASE CornerOf(p, w, h, r) = "tl" -> <<p[1], p[2]>>
      [] CornerOf(p, w, h, r) = "tr" -> <<p[1] - (w - r) + r, p[2]>>
      [] CornerOf(p, w, h, r) = "bl" -> <<p[1], p[2] - (h - r) + r>>
      [] CornerOf(p, w, h, r) = "br" -> <<p[1] - (w - r) + r, p[2] - (h - r) + r>>

\* C3: for 0 < r <= min(w,h)/2 the mask has size (w, h), is 255 outside the
\* four r-by-r corner squares, is non-zero inside a corner square only at
\* pixels inside the quarter disc of radius r inscribed in that corner, and
\* each corner holds the quadrant of the disc stamp that faces it.
C3_MaskContract ==
    mask # NoImage =>
        /\ mask.w = mw /\ mask.h = mh
        /\ DOMAIN mask.px = Pixels(mw, mh)
        /\ \A p \in Pixels(mw, mh) :
              IF CornerOf(p, mw, mh, mr) = "none"
              THEN mask.px[p] = 255
              ELSE /\ mask.px[p] = CircleStamp(mr).px[StampPixel(p, mw, mh, mr)]
                   /\ mask.px[p] # 0 => InQuarterDisc(p, mw, mh, mr)

\* C4: for a square image the mask is unchanged by rotations of 90, 180 and
\* 270 degrees: mask(x,y) = mask(w-1-y,x) = mask(w-1-x,w-1-y) = mask(y,w-1-x).
C4_MaskRotationSymmetric ==
    (mask # NoImage /\ mw = mh) =>
        \A p \in Pixels(mw, mh) :
            /\ mask.px[p] = mask.px[<<mw - 1 - p[2], p[1]>>]
            /\ mask.px[p] = mask.px[<<mw - 1 - p[1], mw - 1 - p[2]>>]
            /\ mask.px[p] = mask.px[<<p[2], mw - 1 - p[1]>>]

\* ------------------------------------------------------------------------
\* PixelSpec: create_splash_screen (lines 50-72) pixel by pixel.  The record
\* geo stands for SPLASH_WIDTH, SPLASH_HEIGHT, LOGO_SIZE and LOGO_RADIUS.
\* ------------------------------------------------------------------------
Geometries ==
    {g \in [cw : 2 .. MaxLogoDim + MaxMargin, ch : 2 .. MaxLogoDim + MaxMargin,
            ls : 2 .. MaxLogoDim, r : 1 .. MaxLogoDim \div 2] :
        /\ 2 * g.r <= g.ls
        /\ g.ls <= g.cw /\ g.cw <= g.ls + MaxMargin
        /\ g.ls <= g.ch /\ g.ch <= g.ls + MaxMargin}

\* RGBA values a pixel of the resized logo may have: opaque, fully
\* transparent, half transparent
LogoPalette == {<<200, 30, 40, 255>>, <<0, 255, 0, 0>>, <<10, 20, 30, 128>>}

\* the images Image.open(..).convert('RGBA').resize((ls, ls), LANCZOS) may
\* return: one body value and one pixel of another value
ResizedLogos(ls) ==
    {[mode |-> "RGBA", w |-> ls, h |-> ls,
      px |-> [p \in Pixels(ls, ls) |-> IF p = t[3] THEN t[2] ELSE t[1]]] :
        t \in LogoPalette \X LogoPalette \X Pixels(ls, ls)}

PixelInit ==
    /\ ppc = "new_canvas"
    /\ geo \in Geometries
    /\ pbg \in {DARK_BG, LIGHT_BG}
    /\ plogo = NoImage
    /\ alphaBefore = NoImage
    /\ psplash = NoImage
    /\ pfinal = NoImage
    /\ MainIdle
    /\ MaskIdle

\* line 53
PxNewCanvas ==
    /\ ppc = "new_canvas"
    /\ psplash' = ImageNew("RGBA", geo.cw, geo.ch, ColorFor("RGBA", pbg))
    /\ ppc' = "load"
    /\ UNCHANGED <<geo, pbg, plogo, alphaBefore, pfinal, mainVars, maskVars>>

\* lines 56-57
PxLoadLogo ==
    /\ ppc = "load"
    /\ \E im \in ResizedLogos(geo.ls) : plogo' = im
    /\ ppc' = "round"
    /\ UNCHANGED <<geo, pbg, alphaBefore, psplash, pfinal, mainVars, maskVars>>

\* line 60
PxRoundCorners ==
    /\ ppc = "round"
    /\ alphaBefore' = AlphaBand(plogo)
    /\ plogo' = RoundCorners(plogo, geo.r)
    /\ ppc' = "paste"
    /\ UNCHANGED <<geo, pbg, psplash, pfinal, mainVars, maskVars>>

\* lines 63-67
PxPasteLogo ==
    /\ ppc = "paste"
    /\ psplash' = PasteMask(psplash, plogo, LogoOffset(geo.cw, geo.ls),
                            LogoOffset(geo.ch, geo.ls), plogo)
    /\ ppc' = "flatten"
    /\ UNCHANGED <<geo, pbg, plogo, alphaBefore, pfinal, mainVars, maskVars>>

\* lines 70-71
PxFlatten ==
    /\ ppc = "flatten"
    /\ pfinal' = PasteMask(ImageNew("RGB", geo.cw, geo.ch, ColorFor("RGB", pbg)),
                           psplash, 0, 0, psplash)
    /\ ppc' = "save"
    /\ UNCHANGED <<geo, pbg, plogo, alphaBefore, psplash, mainVars, maskVars>>

\* line 72: PNG is lossless, the file holds pfinal
PxSave ==
    /\ ppc = "save"
    /\ ppc' = "done"
    /\ UNCHANGED <<geo, pbg, plogo, alphaBefore, psplash, pfinal, mainVars,
                   maskVars>>

PixelNext ==
    \/ PxNewCanvas
    \/ PxLoadLogo
    \/ PxRoundCorners
    \/ PxPasteLogo
    \/ PxFlatten
    \/ PxSave

PixelSpec == PixelInit /\ [][PixelNext]_vars

\* the logo's bounding box on the canvas
InLogoBox(p) ==
    InBox(p, (geo.cw - geo.ls) \div 2, (geo.ch - geo.ls) \div 2, geo.ls, geo.ls)

\* #000000 and #F2F2F7 as RGB values
BgValue == IF pbg = "#000000" THEN <<0, 0, 0>> ELSE <<242, 242, 247>>

RGBOf(v) == <<v[1], v[2], v[3]>>

\* C2: round_corners intersects its mask with the logo's alpha: a pixel of
\* the resized logo whose alpha was 0 before round_corners has alpha 0 after
\* it, and the background colour shows there in the output.
C2_TransparentStaysTransparent ==
    /\ ppc \in {"paste", "flatten", "save", "done"} =>
          \A p \in Pixels(geo.ls, geo.ls) :
              alphaBefore.px[p] = 0 => plogo.px[p][4] = 0
    /\ ppc \in {"save", "done"} =>
          \A p \in Pixels(geo.ls, geo.ls) :
              alphaBefore.px[p] = 0 =>
                  pfinal.px[<<p[1] + LogoOffset(geo.cw, geo.ls),
                              p[2] + LogoOffset(geo.ch, geo.ls)>>] = ColorRGB(pbg)

\* C8: every pixel of the output outside the placed logo's bounding box is
\* exactly the background colour of the variant, and the flattening
\* composite leaves these pixels as they are on the canvas.
C8_BackgroundExact ==
    /\ ppc \in {"flatten"} =>
          \A p \in Pixels(geo.cw, geo.ch) :
              ~InLogoBox(p) => psplash.px[p] = BgValue \o <<255>>
    /\ ppc \in {"save", "done"} =>
          /\ pfinal.mode = "RGB"
          /\ \A p \in Pixels(geo.cw, geo.ch) :
                ~InLogoBox(p) =>
                    /\ pfinal.px[p] = BgValue
                    /\ pfinal.px[p] = RGBOf(psplash.px[p])

\* C8 witness: an image was saved that has pixels outside the logo's box and
\* a logo pixel that differs from the background
C8_Witness ==
    /\ ppc = "done"
    /\ pbg = LIGHT_BG
    /\ \E p \in Pixels(geo.cw, geo.ch) : ~InLogoBox(p)
    /\ \E p \in Pixels(geo.cw, geo.ch) :
          InLogoBox(p) /\ pfinal.px[p] # BgValue

\* ------------------------------------------------------------------------
\* Spec: main() (lines 77-112) and create_splash_screen (lines 50-74) at the
\* program's dimensions, with the file system, the console and faults
\* ------------------------------------------------------------------------
NoFile == [format |-> "none", im |-> NoImage]
PartialFile == [format |-> "partial", im |-> NoImage]
PngFile(im) == [format |-> "PNG", im |-> im]

\* a plausible slip: the two calls swapped
CallOrderSwapped == <<"light", "dark">>

\* lines 99-105: the two calls, in order
CallOrder == <<"dark", "light">>

\* lines 101, 105: the background of each call
VariantBg(v) == IF v = "dark" THEN DARK_BG ELSE LIGHT_BG

\* lines 100, 104: os.path.join(OUTPUT_DIR, name)
OutputPath(v) ==
    OUTPUT_DIR \o "/" \o (IF v = "dark" THEN "splash-dark.png" ELSE "splash-light.png")

OutputPaths == {OutputPath(v) : v \in {"dark", "light"}}

\* pixel sizes of the logo file: smaller than, equal to and larger than
\* LOGO_SIZE, square and not
LogoSizes == {<<256, 256>>, <<480, 480>>, <<1024, 1024>>, <<800, 300>>,
              <<100, 900>>}

LogoFiles ==
    {[kind |-> "absent", w |-> 0, h |-> 0, name |-> ""],
     [kind |-> "corrupt", w |-> 0, h |-> 0, name |-> "logo"]}
    \cup {[kind |-> "image", w |-> sz[1], h |-> sz[2], name |-> "logo"] :
              sz \in LogoSizes}

\* what create_splash_screen makes of a decoded logo (lines 53-71)
Splash(f, bg) ==
    SymFlatten(bg,
        SymPaste(SymCanvas("RGBA", SPLASH_WIDTH, SPLASH_HEIGHT, bg),
                 SymRoundCorners(SymResize(SymOpen(f), LOGO_SIZE, LOGO_SIZE),
                                 LOGO_RADIUS),
                 LogoOffset(SPLASH_WIDTH, LOGO_SIZE),
                 LogoOffset(SPLASH_HEIGHT, LOGO_SIZE)))

\* an output file left by an earlier run with an earlier logo
StaleFile(v) ==
    PngFile(Splash([kind |-> "image", w |-> 512, h |-> 512, name |-> "old"],
                   VariantBg(v)))

\* a plausible slip: the existence check is left out
LogoExistsUnchecked == TRUE

\* line 87: os.path.exists(logo_path)
LogoExists == logoFile.kind # "absent"

\* a plausible slip: a handler around the call that swallows the exception
AfterFaultSwallowed(v) == IF v = CallOrder[2] THEN "banner" ELSE "call"

\* lines 101, 105: no handler; an exception ends the run
AfterFault(v) == "aborted"

Ev(e, v) == [ev |-> e, of |-> v]

\* The two non-ASCII characters the script prints, written as their code
\* points: the check mark of line 74 and the check-mark button of line 108
CHECK_MARK == "U+2713"
CHECK_BUTTON == "U+2705"

\* encodings sys.stdout may have: one that encodes every character, one that
\* encodes neither glyph, one that encodes U+2713 but not U+2705
StdoutEncodings == {"utf-8", "ascii", "shift_jisx0213"}

\* print(..): whether the encoding can encode a line holding the glyph
\* ("" for a line of ASCII characters only); if not, print raises
\* UnicodeEncodeError and nothing of the line is written
Encodable(enc, glyph) ==
    \/ glyph = ""
    \/ enc = "utf-8"
    \/ enc = "shift_jisx0213" /\ glyph = CHECK_MARK

MainInit ==
    /\ pc = "start"
    /\ variant = "none"
    /\ logoFile \in LogoFiles
    /\ stdoutEnc \in StdoutEncodings
    /\ dirExists \in (IF LogoExists THEN {TRUE} ELSE BOOLEAN)
    /\ files \in [OutputPaths -> {NoFile} \cup {StaleFile(v) : v \in {"dark", "light"}}]
    /\ \A v \in {"dark", "light"} :
          /\ files[OutputPath(v)] \in {NoFile, StaleFile(v)}
          /\ ~dirExists => files[OutputPath(v)] = NoFile
    /\ stdout = <<>>
    /\ trace = <<>>
    /\ fault = "none"
    /\ runs = 1
    /\ logoAtStart = logoFile
    /\ filesAtStart = files
    /\ filesAfterRun1 = [ok |-> FALSE, files |-> files]
    /\ splash = NoImage
    /\ logo = NoImage
    /\ final = NoImage
    /\ logoPos = <<>>
    /\ MaskIdle
    /\ PixIdle

Init == MainInit

\* lines 80-89
CheckLogo ==
    /\ pc = "start"
    /\ trace' = Append(trace, Ev("check", variant))
    /\ IF ~LogoExists
       THEN /\ stdout' = Append(stdout, "Error: Logo not found at " \o LOGO_PATH)
            /\ pc' = "done"
       ELSE /\ stdout' = stdout
            /\ pc' = "makedirs"
    /\ UNCHANGED <<variant, logoFile, stdoutEnc, dirExists, files, fault, runs,
                   logoAtStart, filesAtStart, filesAfterRun1, splash, logo,
                   final, logoPos, maskVars, pixVars>>

\* lines 92-97
MakeDirs ==
    /\ pc = "makedirs"
    /\ dirExists' = TRUE
    /\ stdout' = stdout \o <<"Generating splash screens...",
                             "Logo: " \o LOGO_PATH,
                             "Output directory: " \o OUTPUT_DIR,
                             "">>
    /\ trace' = Append(trace, Ev("makedirs", variant))
    /\ pc' = "call"
    /\ UNCHANGED <<variant, logoFile, stdoutEnc, files, fault, runs, logoAtStart,
                   filesAtStart, filesAfterRun1, splash, logo, final, logoPos,
                   maskVars, pixVars>>

\* lines 100-101 and 104-105: enter create_splash_screen
CallCreate ==
    /\ pc = "call"
    /\ variant' = IF variant = "none" THEN CallOrder[1] ELSE CallOrder[2]
    /\ trace' = Append(trace, Ev("begin", variant'))
    /\ splash' = NoImage
    /\ logo' = NoImage
    /\ final' = NoImage
    /\ logoPos' = <<>>
    /\ pc' = "css_new"
    /\ UNCHANGED <<logoFile, stdoutEnc, dirExists, files, stdout, fault, runs,
                   logoAtStart, filesAtStart, filesAfterRun1, maskVars, pixVars>>

\* line 53
CssNewCanvas ==
    /\ pc = "css_new"
    /\ splash' = SymCanvas("RGBA", SPLASH_WIDTH, SPLASH_HEIGHT, VariantBg(variant))
    /\ trace' = Append(trace, Ev("new", variant))
    /\ pc' = "css_open"
    /\ UNCHANGED <<variant, logoFile, stdoutEnc, dirExists, files, stdout, fault, runs,
                   logoAtStart, filesAtStart, filesAfterRun1, logo, final,
                   logoPos, maskVars, pixVars>>

\* line 56: Image.open raises when the file is missing or not an image
CssOpenLogo ==
    /\ pc = "css_open"
    /\ IF logoFile.kind = "image"
       THEN /\ logo' = SymOpen(logoFile)
            /\ trace' = Append(trace, Ev("open", variant))
            /\ pc' = "css_resize"
            /\ fault' = fault
       ELSE /\ logo' = logo
            /\ trace' = Append(trace, Ev("fault", variant))
            /\ pc' = AfterFault(variant)
            /\ fault' = "decode"
    /\ UNCHANGED <<variant, logoFile, stdoutEnc, dirExists, files, stdout, runs,
                   logoAtStart, filesAtStart, filesAfterRun1, splash, final,
                   logoPos, maskVars, pixVars>>

\* line 57
CssResize ==
    /\ pc = "css_resize"
    /\ logo' = SymResize(logo, LOGO_SIZE, LOGO_SIZE)
    /\ trace' = Append(trace, Ev("resize", variant))
    /\ pc' = "css_round"
    /\ UNCHANGED <<variant, logoFile, stdoutEnc, dirExists, files, stdout, fault, runs,
                   logoAtStart, filesAtStart, filesAfterRun1, splash, final,
                   logoPos, maskVars, pixVars>>

\* line 60
CssRoundCorners ==
    /\ pc = "css_round"
    /\ logo' = SymRoundCorners(logo, LOGO_RADIUS)
    /\ trace' = Append(trace, Ev("round", variant))
    /\ pc' = "css_paste"
    /\ UNCHANGED <<variant, logoFile, stdoutEnc, dirExists, files, stdout, fault, runs,
                   logoAtStart, filesAtStart, filesAfterRun1, splash, final,
                   logoPos, maskVars, pixVars>>

\* lines 63-67
CssPasteLogo ==
    /\ pc = "css_paste"
    /\ logoPos' = <<LogoOffset(SPLASH_WIDTH, LOGO_SIZE),
                    LogoOffset(SPLASH_HEIGHT, LOGO_SIZE)>>
    /\ splash' = SymPaste(splash, logo, logoPos'[1], logoPos'[2])
    /\ trace' = Append(trace, Ev("paste", variant))
    /\ pc' = "css_flatten"
    /\ UNCHANGED <<variant, logoFile, stdoutEnc, dirExists, files, stdout, fault, runs,
                   logoAtStart, filesAtStart, filesAfterRun1, logo, final,
                   maskVars, pixVars>>

\* lines 70-71
CssFlatten ==
    /\ pc = "css_flatten"
    /\ final' = SymFlatten(VariantBg(variant), splash)
    /\ trace' = Append(trace, Ev("flatten", variant))
    /\ pc' = "css_save"
    /\ UNCHANGED <<variant, logoFile, stdoutEnc, dirExists, files, stdout, fault, runs,
                   logoAtStart, filesAtStart, filesAfterRun1, splash, logo,
                   logoPos, maskVars, pixVars>>

\* a plausible slip: an existing output file is kept
WriteFileKeepExisting(fs, path, im) ==
    IF fs[path] = NoFile THEN [fs EXCEPT ![path] = PngFile(im)] ELSE fs

\* line 72, success: the file is created or overwritten
WriteFile(fs, path, im) == [fs EXCEPT ![path] = PngFile(im)]

\* line 72, failure: the open failed (nothing changes) or the write stopped
\* part way (a partial file is left)
FailedWrites(fs, path) == {fs, [fs EXCEPT ![path] = PartialFile]}

\* line 72
CssSave ==
    /\ pc = "css_save"
    /\ \/ /\ files' = WriteFile(files, OutputPath(variant), final)
          /\ trace' = Append(trace, Ev("write", variant))
          /\ pc' = "css_print"
          /\ fault' = fault
       \/ /\ files' \in FailedWrites(files, OutputPath(variant))
          /\ trace' = Append(trace, Ev("fault", variant))
          /\ pc' = AfterFault(variant)
          /\ fault' = "write"
    /\ UNCHANGED <<variant, logoFile, stdoutEnc, dirExists, stdout, runs, logoAtStart,
                   filesAtStart, filesAfterRun1, splash, logo, final, logoPos,
                   maskVars, pixVars>>

\* line 74: the text of the printed line
CreatedLine(path) == CHECK_MARK \o " Created: " \o path

\* line 74, then back in main; print raises when stdout cannot encode the
\* check mark, after the file was saved
CssPrint ==
    /\ pc = "css_print"
    /\ IF Encodable(stdoutEnc, CHECK_MARK)
       THEN /\ stdout' = Append(stdout, CreatedLine(OutputPath(variant)))
            /\ trace' = Append(trace, Ev("created", variant))
            /\ pc' = IF variant = CallOrder[2] THEN "banner" ELSE "call"
            /\ fault' = fault
       ELSE /\ stdout' = stdout
            /\ trace' = Append(trace, Ev("fault", variant))
            /\ pc' = AfterFault(variant)
            /\ fault' = "encode"
    /\ UNCHANGED <<variant, logoFile, stdoutEnc, dirExists, files, runs,
                   logoAtStart, filesAtStart, filesAfterRun1, splash, logo,
                   final, logoPos, maskVars, pixVars>>

\* line 108: the text of the printed line
BannerLine == CHECK_BUTTON \o " All splash screens generated successfully!"

\* lines 107-112: six prints; the second raises when stdout cannot encode
\* its glyph, after the empty line of line 107 was printed
Banner ==
    /\ pc = "banner"
    /\ IF Encodable(stdoutEnc, CHECK_BUTTON)
       THEN /\ stdout' = stdout \o <<"", BannerLine, "", "Next steps:",
                                     "1. Run: npx expo prebuild --clean",
                                     "2. Run: npx expo run:ios --device">>
            /\ trace' = Append(trace, Ev("banner", "none"))
            /\ pc' = "done"
            /\ fault' = fault
            /\ filesAfterRun1' = IF runs = 1 THEN [ok |-> TRUE, files |-> files]
                                             ELSE filesAfterRun1
       ELSE /\ stdout' = Append(stdout, "")
            /\ trace' = Append(trace, Ev("fault", "none"))
            /\ pc' = "aborted"
            /\ fault' = "encode"
            /\ filesAfterRun1' = filesAfterRun1
    /\ UNCHANGED <<variant, logoFile, stdoutEnc, dirExists, files, runs,
                   logoAtStart, filesAtStart, splash, logo, final, logoPos,
                   maskVars, pixVars>>

\* the script is invoked again (line 116); nothing else has changed
RunAgain ==
    /\ pc \in {"done", "aborted"}
    /\ runs < MaxRuns
    /\ runs' = runs + 1
    /\ pc' = "start"
    /\ variant' = "none"
    /\ stdout' = <<>>
    /\ trace' = <<>>
    /\ fault' = "none"
    /\ filesAtStart' = files
    /\ splash' = NoImage
    /\ logo' = NoImage
    /\ final' = NoImage
    /\ logoPos' = <<>>
    /\ UNCHANGED <<logoFile, stdoutEnc, dirExists, files, logoAtStart, filesAfterRun1,
                   maskVars, pixVars>>

Next ==
    \/ CheckLogo
    \/ MakeDirs
    \/ CallCreate
    \/ CssNewCanvas
    \/ CssOpenLogo
    \/ CssResize
    \/ CssRoundCorners
    \/ CssPasteLogo
    \/ CssFlatten
    \/ CssSave
    \/ CssPrint
    \/ Banner
    \/ RunAgain

Spec == Init /\ [][Next]_vars

\* ------------------------------------------------------------------------
\* Properties of main()
\* ------------------------------------------------------------------------
Range(q) == {q[i] : i \in 1 .. Len(q)}

IsPrefix(a, b) == Len(a) <= Len(b) /\ \A i \in 1 .. Len(a) : a[i] = b[i]

Count(e) == Cardinality({i \in 1 .. Len(trace) : trace[i] = e})

DarkPath == "assets/splash-dark.png"
LightPath == "assets/splash-light.png"

\* C1: with the logo file absent the run ends normally after the diagnostic
\* message: no fault, no output file written, create_splash_screen never
\* entered, the output directory not created; and in every run the
\* existence check comes before the directory creation and every write.
C1_MissingLogoNoOp ==
    /\ logoFile.kind = "absent" =>
          /\ fault = "none"
          /\ pc \in {"start", "done"}
          /\ files = filesAtStart
          /\ \A i \in 1 .. Len(trace) : trace[i].ev = "check"
          /\ pc = "done" =>
                /\ trace = <<Ev("check", "none")>>
                /\ stdout = <<"Error: Logo not found at assets/AI_Companion_icon.png">>
    /\ \A i \in 1 .. Len(trace) :
          trace[i].ev \in {"makedirs", "write"} =>
              \E j \in 1 .. i - 1 : trace[j].ev = "check"

C1_Witness ==
    /\ logoFile.kind = "absent"
    /\ pc = "done"
    /\ Len(stdout) = 1
    /\ files[DarkPath] # NoFile

\* C5: whatever the logo's pixel size, the logo is exactly 480 x 480 when
\* round_corners is applied, and every output file written by the run is
\* 1284 x 2778.
C5_Dimensions ==
    /\ pc = "css_round" => logo.w = 480 /\ logo.h = 480
    /\ \A i \in 1 .. Len(trace) :
          trace[i].ev = "write" =>
              LET f == files[OutputPath(trace[i].of)]
              IN  /\ f.format = "PNG"
                  /\ f.im.w = 1284
                  /\ f.im.h = 2778
                  /\ f.im.inset.im.w = 480
                  /\ f.im.inset.im.h = 480

C5_Witness ==
    /\ pc = "done"
    /\ fault = "none"
    /\ logoFile.kind = "image"
    /\ logoFile.w = 800 /\ logoFile.h = 300
    /\ Count(Ev("write", "dark")) = 1
    /\ Count(Ev("write", "light")) = 1

Milestones ==
    SelectSeq(trace,
              LAMBDA e : e.ev \in {"check", "makedirs", "begin", "write", "banner"})

ExpectedOrder ==
    <<Ev("check", "none"), Ev("makedirs", "none"),
      Ev("begin", "dark"), Ev("write", "dark"),
      Ev("begin", "light"), Ev("write", "light"),
      Ev("banner", "none")>>

\* C6: in a run where the logo exists and no fault occurs the events
\* existence check, directory creation, write of splash-dark.png (black),
\* write of splash-light.png (#F2F2F7), success banner occur in this order,
\* each once; the dark file is written before the light call begins and the
\* banner is printed only after both writes.
C6_LinearOrder ==
    (logoFile.kind # "absent" /\ fault = "none") =>
        /\ IsPrefix(Milestones, ExpectedOrder)
        /\ pc = "done" => Milestones = ExpectedOrder
        /\ Count(Ev("write", "dark")) = 1 =>
              files[DarkPath].im.fill = <<0, 0, 0>>
        /\ Count(Ev("write", "light")) = 1 =>
              files[LightPath].im.fill = <<242, 242, 247>>
        /\ BannerLine \in Range(stdout) =>
              /\ Count(Ev("write", "dark")) = 1
              /\ Count(Ev("write", "light")) = 1

C6_Witness ==
    /\ pc = "done"
    /\ fault = "none"
    /\ logoFile.kind = "image"
    /\ BannerLine \in Range(stdout)

\* C7: a second run with the same logo leaves both output files as the
\* first run left them: both are overwritten with an image made from the
\* logo and the constants only, and the logo file is never altered.
C7_Idempotent ==
    /\ logoFile = logoAtStart
    /\ (runs >= 2 /\ pc = "done" /\ fault = "none" /\ logoFile.kind = "image"
            /\ filesAfterRun1.ok) =>
          /\ files = filesAfterRun1.files
          /\ \A v \in {"dark", "light"} :
                /\ Count(Ev("write", v)) = 1
                /\ files[OutputPath(v)].format = "PNG"
                /\ files[OutputPath(v)].im.inset.im.src = "logo"
                /\ files[OutputPath(v)].im.inset.im.srcSize = <<logoFile.w, logoFile.h>>

C7_Witness ==
    /\ runs = 2
    /\ pc = "done"
    /\ fault = "none"
    /\ filesAfterRun1.ok
    /\ files = filesAfterRun1.files
    /\ files[DarkPath].format = "PNG"

\* C9: the logo is pasted at x = 402, y = 1149 in both variants; its box lies
\* inside the canvas and its centre is within one pixel of the canvas centre.
C9_Centered ==
    logoPos # <<>> =>
        /\ logoPos = <<402, 1149>>
        /\ splash.inset.x = 402 /\ splash.inset.y = 1149
        /\ 0 <= logoPos[1] /\ logoPos[1] + LOGO_SIZE <= SPLASH_WIDTH
        /\ 0 <= logoPos[2] /\ logoPos[2] + LOGO_SIZE <= SPLASH_HEIGHT
        /\ Abs((2 * logoPos[1] + LOGO_SIZE) - SPLASH_WIDTH) <= 2
        /\ Abs((2 * logoPos[2] + LOGO_SIZE) - SPLASH_HEIGHT) <= 2

C9_Witness ==
    /\ variant = "light"
    /\ pc = "css_flatten"
    /\ logoPos = <<402, 1149>>

\* C10: a decode or write failure inside create_splash_screen aborts the
\* run: the failing step is the last step of the run, nothing is retried,
\* the banner is never printed; a failure in the dark call leaves
\* splash-light.png untouched, and a decode failure leaves every file
\* untouched.
C10_FaultAborts ==
    fault # "none" =>
        /\ pc = "aborted"
        /\ trace[Len(trace)].ev = "fault"
        /\ Cardinality({i \in 1 .. Len(trace) : trace[i].ev = "fault"}) = 1
        /\ \A v \in {"dark", "light"} : Count(Ev("begin", v)) <= 1
        /\ Count(Ev("banner", "none")) = 0
        /\ BannerLine \notin Range(stdout)
        /\ trace[Len(trace)].of = "dark" =>
              /\ Count(Ev("begin", "light")) = 0
              /\ files[LightPath] = filesAtStart[LightPath]
        /\ fault = "decode" =>
              /\ files = filesAtStart
              /\ \A i \in 1 .. Len(trace) : trace[i].ev # "write"

C10_Witness ==
    /\ pc = "aborted"
    /\ fault = "write"
    /\ variant = "dark"
    /\ files[DarkPath] = PartialFile
    /\ files[LightPath] # NoFile
    /\ files[LightPath] = filesAtStart[LightPath]

====
